---- MODULE Spec2Model ----
(***************************************************************************)
(* The multithreading programs of 99_SummaryOutline/Multithreading.md and  *)
(* of unnamed/part_004:                                                    *)
(*   "pool"          : section 11, workerFunction / main (worker pool over *)
(*                     taskQueue, stopped through the atomic stopWorkers); *)
(*   "pc"            : section 5, producer / consumer over dataQueue,      *)
(*                     ended through finishedProducing;                    *)
(*   "mutexCounter", "atomicCounter", "raceCounter" :                      *)
(*                     two threads incrementing a shared counter under a   *)
(*                     mutex, atomically, or without synchronization;      *)
(*   "lockGuard", "scopedLock" :                                           *)
(*                     two threads taking mutexA and mutexB;               *)
(*   "ready"         : consumer waiting for the producer's dataReady;      *)
(*   "barrier"       : three workers meeting at a std::barrier twice.      *)
(* The programs are separate executables.  The variable prog records which *)
(* one is running; the variables of the other programs keep their initial  *)
(* values.  The queue programs and the dataReady program each declare one  *)
(* mutex and one condition variable; one pair of variables models them.    *)
(*                                                                         *)
(* Every statement that another thread can observe is one step.  In        *)
(* particular condition_variable::wait(lock, pred) is                      *)
(*     while (!pred()) wait(lock);                                         *)
(* so the evaluation of pred (mutex held) and the blocking wait(lock)      *)
(* (atomically: release the mutex, enter the wait set) are two steps, and  *)
(* a woken thread re-acquires the mutex before it evaluates pred again.    *)
(***************************************************************************)
EXTENDS Integers, Sequences, FiniteSets, TLC

\* ---- bounds of the model ------------------------------------------------
\* number of worker threads (numWorkers is 3 in the source)
NumWorkers == 2
\* number of tasks main pushes (10 in the source)
NumTasks == 3
\* number of values the producer pushes (5 in the source)
NumItems == 3
\* number of spurious wake-ups of the condition variable in one run
MaxSpurious == 2
\* increments per thread in the counter programs (1000 and 1000000 in the
\* sources)
Increments == 2

Workers == 0 .. (NumWorkers - 1)
Tasks == 1 .. NumTasks

\* ---- thread identities --------------------------------------------------
Free == <<"free", 0>>
MainT == <<"main", 0>>
W(w) == <<"worker", w>>
ProducerT == <<"producer", 0>>
ConsumerT == <<"consumer", 0>>
\* the two threads of a counter program (threadA / threadB, t1 / t2)
IncThreads == {1, 2}
T(t) == <<"thread", t>>
\* the two threads of a two-mutex program and the two mutexes
LockThreads == {1, 2}
Mutexes == {"A", "B"}
\* std::barrier barrier(3, ...): the expected count, and the worker ids
Parties == 3
BarrierWorkers == 1 .. Parties
\* threadFuncA names mutexA then mutexB, threadFuncB mutexB then mutexA
OppositeOrder == [t \in LockThreads |-> IF t = 1 THEN <<"A", "B">> ELSE <<"B", "A">>]

VARIABLES
    prog,               \* which program runs
    queueMutex,         \* owner of queueMutex, or Free
    waiting,            \* threads blocked inside queueCondition.wait(lock)
    spurious,           \* spurious wake-ups so far
    \* -- pool program
    taskQueue,          \* std::queue<int> taskQueue
    stopWorkers,        \* std::atomic<bool> stopWorkers
    mpc,                \* main: position
    mi,                 \* main: loop variable i of the current loop
    wpc,                \* workerFunction(w): position
    task,               \* workerFunction(w): local int task
    executed,           \* per task: how often a worker processed it
    popLog,             \* tasks in the order workers popped them
    \* -- producer / consumer program
    dataQueue,          \* std::queue<int> dataQueue
    finishedProducing,  \* bool finishedProducing
    ppc,                \* producer: position
    pidx,               \* producer: loop variable i
    cpc,                \* consumer: position
    value,              \* consumer: local int value
    processed,          \* values in the order the consumer processed them
    \* -- counter programs
    sharedCounter,      \* int sharedCounter / std::atomic<int> atomicCounter
    globalMutex,        \* owner of globalMutex (mtx in part_004), or Free
    ipc,                \* incrementCounter on thread t: position
    ii,                 \* incrementCounter on thread t: loop variable i
    reg,                \* thread t: the value ++sharedCounter has read
    printed,            \* the values main has printed (none or one)
    \* -- two-mutex programs
    mutexOwner,         \* owner of mutexA ("A") and of mutexB ("B"), or Free
    order,              \* thread t: the two mutexes in the order it names them
    start,              \* scoped_lock on thread t: which of the two it locks first
    lpc,                \* thread t: position
    \* -- dataReady program (its mtx and cv are queueMutex and waiting)
    dataReady,          \* bool dataReady
    rcpc,               \* consumer: position
    rppc,               \* producer: position
    \* -- barrier program
    bphase,             \* std::barrier: number of completed phases
    arrived,            \* std::barrier: arrivals in the current phase
    completions,        \* how often the completion function has run
    bpc,                \* worker(id): position
    round,              \* worker(id): 1 up to the first arrive_and_wait, then 2
    token,              \* worker(id): the phase in which it last arrived
    bmpc,               \* main: position
    bi                  \* main: loop variable i

shared == <<queueMutex, waiting, spurious>>
poolVars == <<taskQueue, stopWorkers, mpc, mi, wpc, task, executed, popLog>>
pcVars == <<dataQueue, finishedProducing, ppc, pidx, cpc, value, processed>>
cvVars == <<shared, poolVars, pcVars>>
counterVars == <<sharedCounter, globalMutex, ipc, ii, reg, printed>>
lockVars == <<mutexOwner, order, start, lpc>>
readyVars == <<dataReady, rcpc, rppc>>
barrierVars == <<bphase, arrived, completions, bpc, round, token, bmpc, bi>>
otherVars == <<counterVars, lockVars, readyVars, barrierVars>>
\* what the steps of one program leave alone: the other programs' variables
counterRest == <<cvVars, lockVars, readyVars, barrierVars>>
lockRest == <<cvVars, counterVars, readyVars, barrierVars>>
readyRest == <<poolVars, pcVars, counterVars, lockVars, barrierVars>>
barrierRest == <<cvVars, counterVars, lockVars, readyVars>>
vars == <<prog, cvVars, otherVars>>

\* ---- std::queue ---------------------------------------------------------
PushFront(q, x) == <<x>> \o q
PushTwice(q, x) == Append(Append(q, x), x)
Push(q, x) == Append(q, x)
Empty(q) == Len(q) = 0
Front(q) == Head(q)
PopNothing(q) == q
Pop(q) == Tail(q)

\* ---- std::mutex / std::condition_variable -------------------------------
CanLock == queueMutex = Free
\* the sets of threads a notify_one may wake: any one waiter, or none if
\* nobody waits
NotifyOneDropped == {{}}
NotifyOneChoices == IF waiting = {} THEN {{}} ELSE {{t} : t \in waiting}
NotifyAllNobody == {}
NotifyAllChoice == waiting

Init ==
    /\ prog \in {"pool", "pc", "mutexCounter", "atomicCounter", "raceCounter",
                "lockGuard", "scopedLock", "ready", "barrier"}
    /\ queueMutex = Free
    /\ waiting = {}
    /\ spurious = 0
    /\ taskQueue = <<>>
    /\ stopWorkers = FALSE
    /\ mpc = "spawn"
    /\ mi = 0
    /\ wpc = [w \in Workers |-> "idle"]
    /\ task = [w \in Workers |-> 0]
    /\ executed = [t \in Tasks |-> 0]
    /\ popLog = <<>>
    /\ dataQueue = <<>>
    /\ finishedProducing = FALSE
    /\ ppc = "lock"
    /\ pidx = 0
    /\ cpc = "top"
    /\ value = 0
    /\ processed = <<>>
    /\ sharedCounter = 0
    /\ globalMutex = Free
    /\ ipc = [t \in IncThreads |-> "top"]
    /\ ii = [t \in IncThreads |-> 0]
    /\ reg = [t \in IncThreads |-> 0]
    /\ printed = <<>>
    /\ mutexOwner = [m \in Mutexes |-> Free]
    /\ order \in IF prog = "scopedLock"
                    THEN [LockThreads -> {<<"A", "B">>, <<"B", "A">>}]
                    ELSE {OppositeOrder}
    /\ start = [t \in LockThreads |-> 1]
    /\ lpc = [t \in LockThreads |-> "first"]
    /\ dataReady = FALSE
    /\ rcpc = "lock"
    /\ rppc = "lock"
    /\ bphase = 0
    /\ arrived = 0
    /\ completions = 0
    /\ bpc = [w \in BarrierWorkers |-> "idle"]
    /\ round = [w \in BarrierWorkers |-> 1]
    /\ token = [w \in BarrierWorkers |-> 0]
    /\ bmpc = "spawn"
    /\ bi = 1

\* =========================================================================
\* pool program: main
\* =========================================================================
\* for (i = 0; i < numWorkers; ++i) workers.emplace_back(workerFunction, i);
MainSpawn ==
    /\ prog = "pool" /\ mpc = "spawn"
    /\ wpc' = [wpc EXCEPT ![mi] = "top"]
    /\ IF mi + 1 < NumWorkers
          THEN mi' = mi + 1 /\ mpc' = mpc
          ELSE mi' = 1 /\ mpc' = "lock"
    /\ UNCHANGED <<prog, otherVars, shared, pcVars, taskQueue, stopWorkers, task, executed, popLog>>

\* std::lock_guard<std::mutex> lock(queueMutex);
MainLock ==
    /\ prog = "pool" /\ mpc = "lock"
    /\ CanLock
    /\ queueMutex' = MainT
    /\ mpc' = "push"
    /\ UNCHANGED <<prog, otherVars, waiting, spurious, pcVars, taskQueue, stopWorkers, mi, wpc, task, executed, popLog>>

MainPushBounded ==
    /\ prog = "pool" /\ mpc = "push"
    /\ Len(taskQueue) < NumTasks - 1
    /\ taskQueue' = Push(taskQueue, mi)
    /\ mpc' = "unlock"
    /\ UNCHANGED <<prog, otherVars, shared, pcVars, stopWorkers, mi, wpc, task, executed, popLog>>

\* taskQueue.push(i);
MainPush ==
    /\ prog = "pool" /\ mpc = "push"
    /\ taskQueue' = Push(taskQueue, mi)
    /\ mpc' = "unlock"
    /\ UNCHANGED <<prog, otherVars, shared, pcVars, stopWorkers, mi, wpc, task, executed, popLog>>

\* } end of the lock_guard's scope
MainUnlock ==
    /\ prog = "pool" /\ mpc = "unlock"
    /\ queueMutex' = Free
    /\ mpc' = "notify"
    /\ UNCHANGED <<prog, otherVars, waiting, spurious, pcVars, taskQueue, stopWorkers, mi, wpc, task, executed, popLog>>

\* queueCondition.notify_one(); and the loop's ++i, i <= 10
MainNotifyOne ==
    /\ prog = "pool" /\ mpc = "notify"
    /\ \E S \in NotifyOneChoices : waiting' = waiting \ S
    /\ IF mi + 1 <= NumTasks
          THEN mi' = mi + 1 /\ mpc' = "lock"
          ELSE mi' = mi /\ mpc' = "stop"
    /\ UNCHANGED <<prog, otherVars, queueMutex, spurious, pcVars, taskQueue, stopWorkers, wpc, task, executed, popLog>>

\* stopWorkers = true;   (atomic store, queueMutex not taken)
MainStop ==
    /\ prog = "pool" /\ mpc = "stop"
    /\ stopWorkers' = TRUE
    /\ mpc' = "notifyAll"
    /\ UNCHANGED <<prog, otherVars, shared, pcVars, taskQueue, mi, wpc, task, executed, popLog>>

MainNotifyAllResets ==
    /\ prog = "pool" /\ mpc = "notifyAll"
    /\ waiting' = waiting \ NotifyAllChoice
    /\ stopWorkers' = FALSE
    /\ mpc' = "join"
    /\ mi' = 0
    /\ UNCHANGED <<prog, otherVars, queueMutex, spurious, pcVars, taskQueue, wpc, task, executed, popLog>>

\* queueCondition.notify_all();
MainNotifyAll ==
    /\ prog = "pool" /\ mpc = "notifyAll"
    /\ waiting' = waiting \ NotifyAllChoice
    /\ mpc' = "join"
    /\ mi' = 0
    /\ UNCHANGED <<prog, otherVars, queueMutex, spurious, pcVars, taskQueue, stopWorkers, wpc, task, executed, popLog>>

MainJoinNoWait ==
    /\ prog = "pool" /\ mpc = "join"
    /\ IF mi + 1 < NumWorkers
          THEN mi' = mi + 1 /\ mpc' = mpc
          ELSE mi' = mi /\ mpc' = "end"
    /\ UNCHANGED <<prog, otherVars, shared, pcVars, taskQueue, stopWorkers, wpc, task, executed, popLog>>

\* for (auto& thread : workers) thread.join();
MainJoin ==
    /\ prog = "pool" /\ mpc = "join"
    /\ wpc[mi] = "done"
    /\ IF mi + 1 < NumWorkers
          THEN mi' = mi + 1 /\ mpc' = mpc
          ELSE mi' = mi /\ mpc' = "end"
    /\ UNCHANGED <<prog, otherVars, shared, pcVars, taskQueue, stopWorkers, wpc, task, executed, popLog>>

\* =========================================================================
\* pool program: workerFunction(w)
\* =========================================================================
\* [] { return !taskQueue.empty() || stopWorkers.load(); }
WaitPredicateAlways == TRUE
WaitPredicate == ~Empty(taskQueue) \/ stopWorkers
\* if (stopWorkers && taskQueue.empty())
ExitTestStopOnly == stopWorkers
ExitTest == stopWorkers /\ Empty(taskQueue)

\* std::unique_lock<std::mutex> lock(queueMutex);
WorkerLock(w) ==
    /\ prog = "pool" /\ wpc[w] = "top"
    /\ CanLock
    /\ queueMutex' = W(w)
    /\ wpc' = [wpc EXCEPT ![w] = "pred"]
    /\ UNCHANGED <<prog, otherVars, waiting, spurious, pcVars, taskQueue, stopWorkers, mpc, mi, task, executed, popLog>>

\* queueCondition.wait(lock, pred): pred is evaluated with the mutex held
WorkerPred(w) ==
    /\ prog = "pool" /\ wpc[w] = "pred"
    /\ wpc' = [wpc EXCEPT ![w] = IF WaitPredicate THEN "test" ELSE "block"]
    /\ UNCHANGED <<prog, otherVars, shared, pcVars, taskQueue, stopWorkers, mpc, mi, task, executed, popLog>>

WorkerBlockKeepsLock(w) ==
    /\ prog = "pool" /\ wpc[w] = "block"
    /\ waiting' = waiting \cup {W(w)}
    /\ wpc' = [wpc EXCEPT ![w] = "wait"]
    /\ UNCHANGED <<prog, otherVars, queueMutex, spurious, pcVars, taskQueue, stopWorkers, mpc, mi, task, executed, popLog>>

\* wait(lock): atomically release the mutex and enter the wait set
WorkerBlock(w) ==
    /\ prog = "pool" /\ wpc[w] = "block"
    /\ queueMutex' = Free
    /\ waiting' = waiting \cup {W(w)}
    /\ wpc' = [wpc EXCEPT ![w] = "wait"]
    /\ UNCHANGED <<prog, otherVars, spurious, pcVars, taskQueue, stopWorkers, mpc, mi, task, executed, popLog>>

WorkerWakeNoLock(w) ==
    /\ prog = "pool" /\ wpc[w] = "wait"
    /\ W(w) \notin waiting
    /\ wpc' = [wpc EXCEPT ![w] = "pred"]
    /\ UNCHANGED <<prog, otherVars, shared, pcVars, taskQueue, stopWorkers, mpc, mi, task, executed, popLog>>

\* wait(lock) returning: the thread was removed from the wait set and
\* re-acquires the mutex; the loop of wait(lock, pred) evaluates pred again
WorkerWake(w) ==
    /\ prog = "pool" /\ wpc[w] = "wait"
    /\ W(w) \notin waiting
    /\ CanLock
    /\ queueMutex' = W(w)
    /\ wpc' = [wpc EXCEPT ![w] = "pred"]
    /\ UNCHANGED <<prog, otherVars, waiting, spurious, pcVars, taskQueue, stopWorkers, mpc, mi, task, executed, popLog>>

\* if (stopWorkers && taskQueue.empty()) break;
WorkerTest(w) ==
    /\ prog = "pool" /\ wpc[w] = "test"
    /\ wpc' = [wpc EXCEPT ![w] = IF ExitTest THEN "break" ELSE "branch"]
    /\ UNCHANGED <<prog, otherVars, shared, pcVars, taskQueue, stopWorkers, mpc, mi, task, executed, popLog>>

WorkerBreakLoops(w) ==
    /\ prog = "pool" /\ wpc[w] = "break"
    /\ queueMutex' = Free
    /\ wpc' = [wpc EXCEPT ![w] = "top"]
    /\ UNCHANGED <<prog, otherVars, waiting, spurious, pcVars, taskQueue, stopWorkers, mpc, mi, task, executed, popLog>>

\* break: the unique_lock goes out of scope and releases the mutex; the
\* worker prints "Stopping." and returns
WorkerBreak(w) ==
    /\ prog = "pool" /\ wpc[w] = "break"
    /\ queueMutex' = Free
    /\ wpc' = [wpc EXCEPT ![w] = "done"]
    /\ UNCHANGED <<prog, otherVars, waiting, spurious, pcVars, taskQueue, stopWorkers, mpc, mi, task, executed, popLog>>

\* if (!taskQueue.empty()) { int task = taskQueue.front(); taskQueue.pop();
\* ... } else { ... }
\* the else branch (line 464) only unlocks
WorkerBranch(w) ==
    /\ prog = "pool" /\ wpc[w] = "branch"
    /\ IF ~Empty(taskQueue)
          THEN /\ task' = [task EXCEPT ![w] = Front(taskQueue)]
               /\ taskQueue' = Pop(taskQueue)
               /\ popLog' = Append(popLog, Front(taskQueue))
               /\ wpc' = [wpc EXCEPT ![w] = "unlock"]
          ELSE /\ wpc' = [wpc EXCEPT ![w] = "unlockElse"]
               /\ UNCHANGED <<task, taskQueue, popLog>>
    /\ UNCHANGED <<prog, otherVars, shared, pcVars, stopWorkers, mpc, mi, executed>>

WorkerUnlockForgotten(w) ==
    /\ prog = "pool" /\ wpc[w] \in {"unlock", "unlockElse"}
    /\ wpc' = [wpc EXCEPT ![w] = IF wpc[w] = "unlock" THEN "work" ELSE "top"]
    /\ UNCHANGED <<prog, otherVars, shared, pcVars, taskQueue, stopWorkers, mpc, mi, task, executed, popLog>>

\* lock.unlock();   (line 458 before the work, line 465 in the else branch)
WorkerUnlock(w) ==
    /\ prog = "pool" /\ wpc[w] \in {"unlock", "unlockElse"}
    /\ queueMutex' = Free
    /\ wpc' = [wpc EXCEPT ![w] = IF wpc[w] = "unlock" THEN "work" ELSE "top"]
    /\ UNCHANGED <<prog, otherVars, waiting, spurious, pcVars, taskQueue, stopWorkers, mpc, mi, task, executed, popLog>>

\* "Processing task"; sleep_for(100ms); the iteration ends
WorkerWork(w) ==
    /\ prog = "pool" /\ wpc[w] = "work"
    /\ executed' = [executed EXCEPT ![task[w]] = @ + 1]
    /\ wpc' = [wpc EXCEPT ![w] = "top"]
    /\ UNCHANGED <<prog, otherVars, shared, pcVars, taskQueue, stopWorkers, mpc, mi, task, popLog>>

\* a spurious wake-up: wait(lock) may return without any notify
SpuriousWake ==
    /\ spurious < MaxSpurious
    /\ \E t \in waiting : waiting' = waiting \ {t}
    /\ spurious' = spurious + 1
    /\ UNCHANGED <<prog, otherVars, queueMutex, poolVars, pcVars>>

Main ==
    \/ MainSpawn \/ MainLock \/ MainPush \/ MainUnlock \/ MainNotifyOne
    \/ MainStop \/ MainNotifyAll \/ MainJoin

Worker(w) ==
    \/ WorkerLock(w) \/ WorkerPred(w) \/ WorkerBlock(w) \/ WorkerWake(w)
    \/ WorkerTest(w) \/ WorkerBreak(w) \/ WorkerBranch(w) \/ WorkerUnlock(w)
    \/ WorkerWork(w)

\* =========================================================================
\* producer / consumer program: producer
\* =========================================================================
\* std::lock_guard<std::mutex> lock(queueMutex);   (line 210)
ProducerLock ==
    /\ prog = "pc" /\ ppc = "lock"
    /\ CanLock
    /\ queueMutex' = ProducerT
    /\ ppc' = "push"
    /\ UNCHANGED <<prog, otherVars, waiting, spurious, poolVars, dataQueue, finishedProducing, pidx, cpc, value, processed>>

\* dataQueue.push(i);
ProducerPush ==
    /\ prog = "pc" /\ ppc = "push"
    /\ dataQueue' = Push(dataQueue, pidx)
    /\ ppc' = "unlock"
    /\ UNCHANGED <<prog, otherVars, shared, poolVars, finishedProducing, pidx, cpc, value, processed>>

\* } end of the lock_guard's scope   (lines 213 and 222)
ProducerUnlock ==
    /\ prog = "pc" /\ ppc \in {"unlock", "unlockFin"}
    /\ queueMutex' = Free
    /\ ppc' = IF ppc = "unlock" THEN "notify" ELSE "notifyAll"
    /\ UNCHANGED <<prog, otherVars, waiting, spurious, poolVars, dataQueue, finishedProducing, pidx, cpc, value, processed>>

\* queueCondition.notify_one(); sleep_for(500ms); ++i, i < 5
ProducerNotifyOne ==
    /\ prog = "pc" /\ ppc = "notify"
    /\ \E S \in NotifyOneChoices : waiting' = waiting \ S
    /\ pidx' = pidx + 1
    /\ ppc' = IF pidx + 1 < NumItems THEN "lock" ELSE "lockFin"
    /\ UNCHANGED <<prog, otherVars, queueMutex, spurious, poolVars, dataQueue, finishedProducing, cpc, value, processed>>

\* std::lock_guard<std::mutex> lock(queueMutex);   (line 220)
ProducerLockFin ==
    /\ prog = "pc" /\ ppc = "lockFin"
    /\ CanLock
    /\ queueMutex' = ProducerT
    /\ ppc' = "setFin"
    /\ UNCHANGED <<prog, otherVars, waiting, spurious, poolVars, dataQueue, finishedProducing, pidx, cpc, value, processed>>

\* finishedProducing = true;
ProducerSetFinished ==
    /\ prog = "pc" /\ ppc = "setFin"
    /\ finishedProducing' = TRUE
    /\ ppc' = "unlockFin"
    /\ UNCHANGED <<prog, otherVars, shared, poolVars, dataQueue, pidx, cpc, value, processed>>

\* queueCondition.notify_all();
ProducerNotifyAll ==
    /\ prog = "pc" /\ ppc = "notifyAll"
    /\ waiting' = waiting \ NotifyAllChoice
    /\ ppc' = "done"
    /\ UNCHANGED <<prog, otherVars, queueMutex, spurious, poolVars, dataQueue, finishedProducing, pidx, cpc, value, processed>>

\* =========================================================================
\* producer / consumer program: consumer
\* =========================================================================
\* [] { return !dataQueue.empty() || finishedProducing; }
ConsumerPredicate == ~Empty(dataQueue) \/ finishedProducing

\* std::unique_lock<std::mutex> lock(queueMutex);   (line 229)
\* and lock.lock();                                 (line 243)
ConsumerLock ==
    /\ prog = "pc" /\ cpc \in {"top", "relock"}
    /\ CanLock
    /\ queueMutex' = ConsumerT
    /\ cpc' = IF cpc = "top" THEN "pred" ELSE "inner"
    /\ UNCHANGED <<prog, otherVars, waiting, spurious, poolVars, dataQueue, finishedProducing, ppc, pidx, value, processed>>

\* queueCondition.wait(lock, pred): pred is evaluated with the mutex held
ConsumerPred ==
    /\ prog = "pc" /\ cpc = "pred"
    /\ cpc' = IF ConsumerPredicate THEN "inner" ELSE "block"
    /\ UNCHANGED <<prog, otherVars, shared, poolVars, dataQueue, finishedProducing, ppc, pidx, value, processed>>

\* wait(lock): atomically release the mutex and enter the wait set
ConsumerBlock ==
    /\ prog = "pc" /\ cpc = "block"
    /\ queueMutex' = Free
    /\ waiting' = waiting \cup {ConsumerT}
    /\ cpc' = "wait"
    /\ UNCHANGED <<prog, otherVars, spurious, poolVars, dataQueue, finishedProducing, ppc, pidx, value, processed>>

\* wait(lock) returning: re-acquire the mutex, evaluate pred again
ConsumerWake ==
    /\ prog = "pc" /\ cpc = "wait"
    /\ ConsumerT \notin waiting
    /\ CanLock
    /\ queueMutex' = ConsumerT
    /\ cpc' = "pred"
    /\ UNCHANGED <<prog, otherVars, waiting, spurious, poolVars, dataQueue, finishedProducing, ppc, pidx, value, processed>>

\* while (!dataQueue.empty()) { int value = dataQueue.front();
\* dataQueue.pop(); ...
ConsumerInner ==
    /\ prog = "pc" /\ cpc = "inner"
    /\ IF ~Empty(dataQueue)
          THEN /\ value' = Front(dataQueue)
               /\ dataQueue' = Pop(dataQueue)
               /\ cpc' = "unlock"
          ELSE /\ cpc' = "fin"
               /\ UNCHANGED <<value, dataQueue>>
    /\ UNCHANGED <<prog, otherVars, shared, poolVars, finishedProducing, ppc, pidx, processed>>

\* lock.unlock();   (line 239)
ConsumerUnlock ==
    /\ prog = "pc" /\ cpc = "unlock"
    /\ queueMutex' = Free
    /\ cpc' = "process"
    /\ UNCHANGED <<prog, otherVars, waiting, spurious, poolVars, dataQueue, finishedProducing, ppc, pidx, value, processed>>

\* std::cout << "[Consumer] Processed: " << value
ConsumerProcess ==
    /\ prog = "pc" /\ cpc = "process"
    /\ processed' = Append(processed, value)
    /\ cpc' = "relock"
    /\ UNCHANGED <<prog, otherVars, shared, poolVars, dataQueue, finishedProducing, ppc, pidx, value>>

\* if (finishedProducing) break;   otherwise the iteration ends
ConsumerFinTest ==
    /\ prog = "pc" /\ cpc = "fin"
    /\ cpc' = IF finishedProducing THEN "break" ELSE "endIter"
    /\ UNCHANGED <<prog, otherVars, shared, poolVars, dataQueue, finishedProducing, ppc, pidx, value, processed>>

\* the unique_lock goes out of scope: at the break (the consumer returns)
\* and at the end of an iteration (the loop starts over)
ConsumerRelease ==
    /\ prog = "pc" /\ cpc \in {"break", "endIter"}
    /\ queueMutex' = Free
    /\ cpc' = IF cpc = "break" THEN "done" ELSE "top"
    /\ UNCHANGED <<prog, otherVars, waiting, spurious, poolVars, dataQueue, finishedProducing, ppc, pidx, value, processed>>

Producer ==
    \/ ProducerLock \/ ProducerPush \/ ProducerUnlock \/ ProducerNotifyOne
    \/ ProducerLockFin \/ ProducerSetFinished \/ ProducerNotifyAll

Consumer ==
    \/ ConsumerLock \/ ConsumerPred \/ ConsumerBlock \/ ConsumerWake
    \/ ConsumerInner \/ ConsumerUnlock \/ ConsumerProcess \/ ConsumerFinTest
    \/ ConsumerRelease

\* =========================================================================
\* counter programs: two threads run the increment loop, main joins both
\* and prints the counter.
\*   "mutexCounter"  : ++sharedCounter between lock() and unlock(), or under
\*                     a lock_guard (the same steps)
\*   "atomicCounter" : ++ on a std::atomic<int>
\*   "raceCounter"   : ++sharedCounter with no synchronization
\* ++ on a plain int is a read followed by a write of the read value plus 1.
\* =========================================================================
CounterProgs == {"mutexCounter", "atomicCounter", "raceCounter"}

\* for (int i = 0; i < increments; ++i)
IncLoop(t) ==
    /\ prog \in CounterProgs /\ ipc[t] = "top"
    /\ ipc' = [ipc EXCEPT ![t] =
                 IF ii[t] >= Increments THEN "done"
                 ELSE IF prog = "mutexCounter" THEN "lock"
                 ELSE IF prog = "atomicCounter" THEN "atomic"
                 ELSE "read"]
    /\ UNCHANGED <<prog, counterRest, sharedCounter, globalMutex, ii, reg, printed>>

IncLockNoWait(t) ==
    /\ prog = "mutexCounter" /\ ipc[t] = "lock"
    /\ globalMutex' = T(t)
    /\ ipc' = [ipc EXCEPT ![t] = "read"]
    /\ UNCHANGED <<prog, counterRest, sharedCounter, ii, reg, printed>>

\* globalMutex.lock();   /   std::lock_guard<std::mutex> lock(globalMutex);
IncLock(t) ==
    /\ prog = "mutexCounter" /\ ipc[t] = "lock"
    /\ globalMutex = Free
    /\ globalMutex' = T(t)
    /\ ipc' = [ipc EXCEPT ![t] = "read"]
    /\ UNCHANGED <<prog, counterRest, sharedCounter, ii, reg, printed>>

\* ++sharedCounter: the read
IncRead(t) ==
    /\ prog \in {"mutexCounter", "raceCounter"} /\ ipc[t] = "read"
    /\ reg' = [reg EXCEPT ![t] = sharedCounter]
    /\ ipc' = [ipc EXCEPT ![t] = "write"]
    /\ UNCHANGED <<prog, counterRest, sharedCounter, globalMutex, ii, printed>>

IncWriteTwice(t) ==
    /\ prog \in {"mutexCounter", "raceCounter"} /\ ipc[t] = "write"
    /\ sharedCounter' = reg[t] + 2
    /\ IF prog = "mutexCounter"
          THEN ipc' = [ipc EXCEPT ![t] = "unlock"] /\ ii' = ii
          ELSE ipc' = [ipc EXCEPT ![t] = "top"]
               /\ ii' = [ii EXCEPT ![t] = ii[t] + 1]
    /\ UNCHANGED <<prog, counterRest, globalMutex, reg, printed>>

\* ++sharedCounter: the write; without a mutex the iteration ends here
IncWrite(t) ==
    /\ prog \in {"mutexCounter", "raceCounter"} /\ ipc[t] = "write"
    /\ sharedCounter' = reg[t] + 1
    /\ IF prog = "mutexCounter"
          THEN ipc' = [ipc EXCEPT ![t] = "unlock"] /\ ii' = ii
          ELSE ipc' = [ipc EXCEPT ![t] = "top"]
               /\ ii' = [ii EXCEPT ![t] = ii[t] + 1]
    /\ UNCHANGED <<prog, counterRest, globalMutex, reg, printed>>

\* globalMutex.unlock();   /   end of the lock_guard's scope
IncUnlock(t) ==
    /\ prog = "mutexCounter" /\ ipc[t] = "unlock"
    /\ globalMutex' = Free
    /\ ipc' = [ipc EXCEPT ![t] = "top"]
    /\ ii' = [ii EXCEPT ![t] = ii[t] + 1]
    /\ UNCHANGED <<prog, counterRest, sharedCounter, reg, printed>>

\* ++atomicCounter;
IncAtomic(t) ==
    /\ prog = "atomicCounter" /\ ipc[t] = "atomic"
    /\ sharedCounter' = sharedCounter + 1
    /\ ipc' = [ipc EXCEPT ![t] = "top"]
    /\ ii' = [ii EXCEPT ![t] = ii[t] + 1]
    /\ UNCHANGED <<prog, counterRest, globalMutex, reg, printed>>

\* threadA.join(); threadB.join(); std::cout << sharedCounter
CounterMain ==
    /\ prog \in CounterProgs /\ printed = <<>>
    /\ \A t \in IncThreads : ipc[t] = "done"
    /\ printed' = <<sharedCounter>>
    /\ UNCHANGED <<prog, counterRest, sharedCounter, globalMutex, ipc, ii, reg>>

Increment(t) ==
    \/ IncLoop(t) \/ IncLock(t) \/ IncRead(t) \/ IncWrite(t) \/ IncUnlock(t)
    \/ IncAtomic(t)

Counter == CounterMain \/ \E t \in IncThreads : Increment(t)

\* =========================================================================
\* two-mutex programs: two threads take mutexA and mutexB
\*   "lockGuard"  : threadFuncA / threadFuncB, two lock_guards in opposite
\*                  orders
\*   "scopedLock" : threadFuncSafe, std::scoped_lock over both mutexes; each
\*                  thread may name them in either order
\* std::scoped_lock acquires through std::lock: lock one mutex, try_lock the
\* other; if that fails, unlock and start again with the other one first.
\* =========================================================================
\* the mutexes thread t holds
Held(t) == {m \in Mutexes : mutexOwner[m] = T(t)}
Other(k) == IF k = 1 THEN 2 ELSE 1

\* std::lock_guard<std::mutex> lockA(mutexA);     (first lock_guard)
GuardLockFirst(t) ==
    /\ prog = "lockGuard" /\ lpc[t] = "first"
    /\ mutexOwner[order[t][1]] = Free
    /\ mutexOwner' = [mutexOwner EXCEPT ![order[t][1]] = T(t)]
    /\ lpc' = [lpc EXCEPT ![t] = "second"]
    /\ UNCHANGED <<prog, lockRest, order, start>>

GuardLockSecondNoWait(t) ==
    /\ prog = "lockGuard" /\ lpc[t] = "second"
    /\ mutexOwner' = [mutexOwner EXCEPT ![order[t][2]] = T(t)]
    /\ lpc' = [lpc EXCEPT ![t] = "body"]
    /\ UNCHANGED <<prog, lockRest, order, start>>

\* std::lock_guard<std::mutex> lockB(mutexB);     (second lock_guard)
GuardLockSecond(t) ==
    /\ prog = "lockGuard" /\ lpc[t] = "second"
    /\ mutexOwner[order[t][2]] = Free
    /\ mutexOwner' = [mutexOwner EXCEPT ![order[t][2]] = T(t)]
    /\ lpc' = [lpc EXCEPT ![t] = "body"]
    /\ UNCHANGED <<prog, lockRest, order, start>>

\* std::scoped_lock lock(mutexA, mutexB): the blocking lock()
ScopedLock(t) ==
    /\ prog = "scopedLock" /\ lpc[t] = "first"
    /\ mutexOwner[order[t][start[t]]] = Free
    /\ mutexOwner' = [mutexOwner EXCEPT ![order[t][start[t]]] = T(t)]
    /\ lpc' = [lpc EXCEPT ![t] = "try"]
    /\ UNCHANGED <<prog, lockRest, order, start>>

ScopedTryBlocks(t) ==
    /\ prog = "scopedLock" /\ lpc[t] = "try"
    /\ mutexOwner[order[t][Other(start[t])]] = Free
    /\ mutexOwner' = [mutexOwner EXCEPT ![order[t][Other(start[t])]] = T(t)]
    /\ lpc' = [lpc EXCEPT ![t] = "body"]
    /\ UNCHANGED <<prog, lockRest, order, start>>

\* std::scoped_lock: try_lock() on the other mutex; on failure unlock the
\* one held and retry with the other one first
ScopedTry(t) ==
    /\ prog = "scopedLock" /\ lpc[t] = "try"
    /\ IF mutexOwner[order[t][Other(start[t])]] = Free
          THEN /\ mutexOwner' = [mutexOwner EXCEPT ![order[t][Other(start[t])]] = T(t)]
               /\ lpc' = [lpc EXCEPT ![t] = "body"]
               /\ start' = start
          ELSE /\ mutexOwner' = [mutexOwner EXCEPT ![order[t][start[t]]] = Free]
               /\ lpc' = [lpc EXCEPT ![t] = "first"]
               /\ start' = [start EXCEPT ![t] = Other(start[t])]
    /\ UNCHANGED <<prog, lockRest, order>>

\* } the locks go out of scope: both mutexes are released
LockRelease(t) ==
    /\ prog \in {"lockGuard", "scopedLock"} /\ lpc[t] = "body"
    /\ mutexOwner' = [m \in Mutexes |-> IF mutexOwner[m] = T(t) THEN Free ELSE mutexOwner[m]]
    /\ lpc' = [lpc EXCEPT ![t] = "done"]
    /\ UNCHANGED <<prog, lockRest, order, start>>

LockThread(t) ==
    \/ GuardLockFirst(t) \/ GuardLockSecond(t)
    \/ ScopedLock(t) \/ ScopedTry(t)
    \/ LockRelease(t)

TwoMutex == \E t \in LockThreads : LockThread(t)

\* =========================================================================
\* dataReady program (part_004): the consumer waits on cv until the producer
\* has set dataReady.  The program's mtx and cv are modelled by queueMutex
\* and waiting, like the mutex and the condition variable of the queue
\* programs.
\* =========================================================================
ReadyPredicateAlways == TRUE
\* [] { return dataReady; }
ReadyPredicate == dataReady

\* std::unique_lock<std::mutex> lock(mtx);
ReadyConsumerLock ==
    /\ prog = "ready" /\ rcpc = "lock"
    /\ CanLock
    /\ queueMutex' = ConsumerT
    /\ rcpc' = "pred"
    /\ UNCHANGED <<prog, readyRest, waiting, spurious, dataReady, rppc>>

\* cv.wait(lock, pred): pred is evaluated with the mutex held
ReadyConsumerPred ==
    /\ prog = "ready" /\ rcpc = "pred"
    /\ rcpc' = IF ReadyPredicate THEN "process" ELSE "block"
    /\ UNCHANGED <<prog, readyRest, shared, dataReady, rppc>>

\* wait(lock): atomically release the mutex and enter the wait set
ReadyConsumerBlock ==
    /\ prog = "ready" /\ rcpc = "block"
    /\ queueMutex' = Free
    /\ waiting' = waiting \cup {ConsumerT}
    /\ rcpc' = "wait"
    /\ UNCHANGED <<prog, readyRest, spurious, dataReady, rppc>>

\* wait(lock) returning: re-acquire the mutex, evaluate pred again
ReadyConsumerWake ==
    /\ prog = "ready" /\ rcpc = "wait"
    /\ ConsumerT \notin waiting
    /\ CanLock
    /\ queueMutex' = ConsumerT
    /\ rcpc' = "pred"
    /\ UNCHANGED <<prog, readyRest, waiting, spurious, dataReady, rppc>>

\* std::cout << "Consumer: Data is ready. ..."; the unique_lock goes out
\* of scope
ReadyConsumerProcess ==
    /\ prog = "ready" /\ rcpc = "process"
    /\ queueMutex' = Free
    /\ rcpc' = "done"
    /\ UNCHANGED <<prog, readyRest, waiting, spurious, dataReady, rppc>>

\* std::lock_guard<std::mutex> lock(mtx);
ReadyProducerLock ==
    /\ prog = "ready" /\ rppc = "lock"
    /\ CanLock
    /\ queueMutex' = ProducerT
    /\ rppc' = "set"
    /\ UNCHANGED <<prog, readyRest, waiting, spurious, dataReady, rcpc>>

\* dataReady = true;
ReadyProducerSet ==
    /\ prog = "ready" /\ rppc = "set"
    /\ dataReady' = TRUE
    /\ rppc' = "unlock"
    /\ UNCHANGED <<prog, readyRest, shared, rcpc>>

\* } end of the lock_guard's scope
ReadyProducerUnlock ==
    /\ prog = "ready" /\ rppc = "unlock"
    /\ queueMutex' = Free
    /\ rppc' = "notify"
    /\ UNCHANGED <<prog, readyRest, waiting, spurious, dataReady, rcpc>>

\* cv.notify_one();
ReadyProducerNotify ==
    /\ prog = "ready" /\ rppc = "notify"
    /\ \E S \in NotifyOneChoices : waiting' = waiting \ S
    /\ rppc' = "done"
    /\ UNCHANGED <<prog, readyRest, queueMutex, spurious, dataReady, rcpc>>

Ready ==
    \/ ReadyConsumerLock \/ ReadyConsumerPred \/ ReadyConsumerBlock
    \/ ReadyConsumerWake \/ ReadyConsumerProcess
    \/ ReadyProducerLock \/ ReadyProducerSet \/ ReadyProducerUnlock
    \/ ReadyProducerNotify

\* =========================================================================
\* barrier program (part_004): three workers meet at a std::barrier after
\* each of two phases.  The last thread to arrive runs the completion
\* function and then starts the next phase, which releases the waiters.
\* main returns without joining: destroying the joinable threads calls
\* std::terminate, which ends every thread wherever it is.
\* =========================================================================
\* for (int i = 1; i <= 3; ++i) threads.emplace_back(worker, i);
BarrierMainSpawn ==
    /\ prog = "barrier" /\ bmpc = "spawn"
    /\ bpc' = [bpc EXCEPT ![bi] = "work"]
    /\ IF bi < Parties
          THEN bi' = bi + 1 /\ bmpc' = bmpc
          ELSE bi' = bi /\ bmpc' = "return"
    /\ UNCHANGED <<prog, barrierRest, bphase, arrived, completions, round, token>>

\* } end of main: the vector of joinable threads is destroyed
BarrierMainReturn ==
    /\ prog = "barrier" /\ bmpc = "return"
    /\ bmpc' = "terminated"
    /\ UNCHANGED <<prog, barrierRest, bphase, arrived, completions, bpc, round, token, bi>>

\* // Phase 1 work      // Phase 2 work
BarrierWork(w) ==
    /\ prog = "barrier" /\ bmpc # "terminated" /\ bpc[w] = "work"
    /\ bpc' = [bpc EXCEPT ![w] = "arrive"]
    /\ UNCHANGED <<prog, barrierRest, bphase, arrived, completions, round, token, bmpc, bi>>

\* barrier.arrive_and_wait(): the arrival
BarrierArrive(w) ==
    /\ prog = "barrier" /\ bmpc # "terminated" /\ bpc[w] = "arrive"
    /\ arrived' = arrived + 1
    /\ token' = [token EXCEPT ![w] = bphase]
    /\ bpc' = [bpc EXCEPT ![w] = IF arrived + 1 = Parties THEN "complete" ELSE "wait"]
    /\ UNCHANGED <<prog, barrierRest, bphase, completions, round, bmpc, bi>>

\* the last arrival runs []{ std::cout << "Phase complete\n"; }
BarrierComplete(w) ==
    /\ prog = "barrier" /\ bmpc # "terminated" /\ bpc[w] = "complete"
    /\ completions' = completions + 1
    /\ bpc' = [bpc EXCEPT ![w] = "advance"]
    /\ UNCHANGED <<prog, barrierRest, bphase, arrived, round, token, bmpc, bi>>

\* the last arrival starts the next phase and returns from arrive_and_wait
BarrierAdvance(w) ==
    /\ prog = "barrier" /\ bmpc # "terminated" /\ bpc[w] = "advance"
    /\ bphase' = bphase + 1
    /\ arrived' = 0
    /\ bpc' = [bpc EXCEPT ![w] = IF round[w] = 1 THEN "work" ELSE "done"]
    /\ round' = [round EXCEPT ![w] = 2]
    /\ UNCHANGED <<prog, barrierRest, completions, token, bmpc, bi>>

BarrierPassNoWait(w) ==
    /\ prog = "barrier" /\ bmpc # "terminated" /\ bpc[w] = "wait"
    /\ bpc' = [bpc EXCEPT ![w] = IF round[w] = 1 THEN "work" ELSE "done"]
    /\ round' = [round EXCEPT ![w] = 2]
    /\ UNCHANGED <<prog, barrierRest, bphase, arrived, completions, token, bmpc, bi>>

\* barrier.arrive_and_wait(): a waiter returns once its phase has completed
BarrierPass(w) ==
    /\ prog = "barrier" /\ bmpc # "terminated" /\ bpc[w] = "wait"
    /\ bphase > token[w]
    /\ bpc' = [bpc EXCEPT ![w] = IF round[w] = 1 THEN "work" ELSE "done"]
    /\ round' = [round EXCEPT ![w] = 2]
    /\ UNCHANGED <<prog, barrierRest, bphase, arrived, completions, token, bmpc, bi>>

BarrierWorker(w) ==
    \/ BarrierWork(w) \/ BarrierArrive(w) \/ BarrierComplete(w)
    \/ BarrierAdvance(w) \/ BarrierPass(w)

Barrier ==
    \/ BarrierMainSpawn \/ BarrierMainReturn
    \/ \E w \in BarrierWorkers : BarrierWorker(w)

\* every step of a thread's own code (all steps but the spurious wake-up)
Progress ==
    \/ Main \/ (\E w \in Workers : Worker(w)) \/ Producer \/ Consumer
    \/ Counter \/ TwoMutex \/ Ready \/ Barrier

Next == Progress \/ SpuriousWake

Spec == Init /\ [][Next]_vars

\* A thread that can take a step of its code is eventually scheduled.
\* Spurious wake-ups may happen but are never promised.
LiveSpec == Init /\ [][Next]_vars /\ WF_vars(Progress)

\* =========================================================================
\* derived quantities
\* =========================================================================
\* pushes main has performed so far
PoolPushed ==
    IF mpc = "spawn" THEN 0
    ELSE IF mpc \in {"lock", "push"} THEN mi - 1
    ELSE IF mpc \in {"unlock", "notify"} THEN mi
    ELSE NumTasks
\* pushes the producer has performed so far
PcPushed ==
    IF ppc \in {"lock", "push"} THEN pidx
    ELSE IF ppc \in {"unlock", "notify"} THEN pidx + 1
    ELSE NumItems
\* values the consumer has taken out of dataQueue, in order
ConsumerPopped ==
    IF cpc \in {"unlock", "process"} THEN Append(processed, value) ELSE processed
PoolTerminated == prog = "pool" /\ \A w \in Workers : wpc[w] = "done"
FirstN(n, base) == [k \in 1 .. n |-> base + k]

\* =========================================================================
\* C1
\* =========================================================================
\* C1: no task is ever processed more than once, and once every worker has
\* left its loop every pushed task has been processed exactly once (so the
\* executions over all workers add up to the number of pushed tasks) and
\* nothing is left in the queue.
C1_NoDoubleDelivery ==
    /\ \A t \in Tasks : executed[t] <= 1
    /\ PoolTerminated =>
          /\ \A t \in Tasks : executed[t] = 1
          /\ Empty(taskQueue)
          /\ Len(popLog) = NumTasks
\* main's joins have returned and every task was processed once
C1_Witness == PoolTerminated /\ mpc = "end" /\ \A t \in Tasks : executed[t] = 1

\* =========================================================================
\* C2
\* =========================================================================
\* C2: once main has set the stop flag and called notify_all (it is in the
\* join loop), every worker eventually leaves its loop and the joins return:
\* as long as main is in the join loop, some thread can take a step of its
\* own code, so that no worker is left in the wait set with nobody to notify
\* it.  (Every run takes finitely many steps, so the pool terminates exactly
\* if it never gets stuck in the join loop.)
C2_ShutdownTerminates == (prog = "pool" /\ mpc = "join") => ENABLED Progress
\* the same as a liveness property, for LiveSpec
C2_EventuallyJoined == (prog = "pool" /\ mpc = "join") ~> (mpc = "end")

\* =========================================================================
\* C3
\* =========================================================================
\* whenever a queue holds an item and the notify_one of the latest push has
\* been issued, some consumer of that queue is outside the wait set (awake,
\* or already woken) and has not returned
C3_SomeoneAwake ==
    /\ (prog = "pool" /\ ~Empty(taskQueue) /\ mpc \notin {"unlock", "notify"})
          => \E w \in Workers : W(w) \notin waiting /\ wpc[w] \notin {"idle", "done"}
    /\ (prog = "pc" /\ ~Empty(dataQueue) /\ ppc \notin {"unlock", "notify"})
          => (ConsumerT \notin waiting /\ cpc # "done")
\* C3: a pushed item is never stranded while every consumer sleeps: in every
\* state C3_SomeoneAwake holds, and under fair scheduling a non-empty queue
\* always becomes empty again, which only dequeues can bring about.
C3_NoLostWakeup ==
    /\ []C3_SomeoneAwake
    /\ (~Empty(taskQueue) \/ ~Empty(dataQueue)) ~> (Empty(taskQueue) /\ Empty(dataQueue))
\* a worker that was blocked on the empty open queue has been taken out of
\* the wait set by the notify_one of a push (no stop request, no spurious
\* wake-up so far) and the pushed item is there for it
C3_Witness ==
    /\ prog = "pool" /\ ~stopWorkers /\ spurious = 0
    /\ ~Empty(taskQueue)
    /\ \E w \in Workers : wpc[w] = "wait" /\ W(w) \notin waiting

\* =========================================================================
\* C4
\* =========================================================================
\* no worker and no consumer leaves its loop while its queue holds a task
C4_ExitOnlyWhenEmpty ==
    /\ \A w \in Workers : wpc[w] \in {"break", "done"} => Empty(taskQueue)
    /\ cpc \in {"break", "done"} => Empty(dataQueue)
\* C4: no worker (and no consumer) leaves its loop while its queue still
\* holds a task; and if the stop request comes when all tasks are buffered
\* and none has been dequeued, every one of them is eventually processed.
C4_GracefulDrain ==
    /\ []C4_ExitOnlyWhenEmpty
    /\ (prog = "pool" /\ stopWorkers /\ popLog = <<>>)
          ~> (\A t \in Tasks : executed[t] = 1)
    /\ (prog = "pc" /\ finishedProducing /\ ConsumerPopped = <<>>)
          ~> (processed = FirstN(NumItems, -1))
\* the stop request and its notify_all have come with every task buffered
\* and none dequeued; a worker woken by the notify_all is about to drain
C4_Witness ==
    /\ prog = "pool" /\ stopWorkers /\ mpc = "join"
    /\ popLog = <<>> /\ Len(taskQueue) = NumTasks
    /\ \E w \in Workers : W(w) \notin waiting /\ wpc[w] = "wait"

C7_Fifo ==
    /\ popLog \o taskQueue = FirstN(PoolPushed, 0)
    /\ ConsumerPopped \o dataQueue = FirstN(PcPushed, -1)
\* a dequeue has happened while at least two more tasks were buffered
C7_Witness == prog = "pool" /\ Len(popLog) >= 1 /\ Len(taskQueue) >= 2

\* =========================================================================
\* C8
\* =========================================================================
C8_MutexHeldBy(t) == queueMutex = t
\* a step that changes a queue or a stop flag
C8_Mutation ==
    \/ taskQueue' # taskQueue \/ stopWorkers' # stopWorkers
    \/ dataQueue' # dataQueue \/ finishedProducing' # finishedProducing
\* the thread that takes the step (its position changes) owns queueMutex
C8_ActorHoldsMutex ==
    /\ (mpc' # mpc => C8_MutexHeldBy(MainT))
    /\ (\A w \in Workers : wpc'[w] # wpc[w] => C8_MutexHeldBy(W(w)))
    /\ (ppc' # ppc => C8_MutexHeldBy(ProducerT))
    /\ (cpc' # cpc => C8_MutexHeldBy(ConsumerT))
\* C8: every step that changes a queue or a stop flag is taken by a thread
\* that holds queueMutex.
C8_MutationsUnderMutex == [][C8_Mutation => C8_ActorHoldsMutex]_vars

\* =========================================================================
\* C9
\* =========================================================================
\* C9: a thread that is processing a dequeued task does not own queueMutex.
C9_NoLockDuringWork ==
    /\ \A w \in Workers : wpc[w] = "work" => queueMutex # W(w)
    /\ cpc = "process" => queueMutex # ConsumerT
\* while one worker processes its task another worker has dequeued the next
C9_Witness ==
    \E w, v \in Workers :
        /\ wpc[w] = "work" /\ wpc[v] = "unlock"
        /\ queueMutex = W(v) /\ task[v] = task[w] + 1

\* =========================================================================
\* C11
\* =========================================================================
\* what a dequeue (lock, wait, exit test, front/pop) has found at each of
\* its positions
C11_Outcome ==
    /\ \A w \in Workers :
          /\ wpc[w] = "test" => (~Empty(taskQueue) \/ stopWorkers)
          /\ wpc[w] = "break" => (Empty(taskQueue) /\ stopWorkers)
          /\ wpc[w] = "branch" => ~Empty(taskQueue)
          /\ wpc[w] # "unlockElse"
    /\ cpc = "break" => (Empty(dataQueue) /\ finishedProducing)
\* the steps of a dequeue: on an empty queue with no stop request the
\* predicate evaluation leads to the blocking wait; a dequeue that goes on
\* takes the head of the queue
C11_Step ==
    /\ \A w \in Workers :
          /\ (wpc[w] = "pred" /\ Empty(taskQueue) /\ ~stopWorkers)
                => wpc'[w] \in {"pred", "block"}
          /\ (wpc[w] = "branch" /\ wpc'[w] # "branch")
                => (task'[w] = Head(taskQueue) /\ taskQueue' = Tail(taskQueue))
    /\ (cpc = "pred" /\ Empty(dataQueue) /\ ~finishedProducing)
          => cpc' \in {"pred", "block"}
    /\ (cpc = "inner" /\ cpc' = "unlock")
          => (value' = Head(dataQueue) /\ dataQueue' = Tail(dataQueue))
\* C11: a worker (consumer) takes the exit that stands for "drained" only
\* with the queue empty and the stop flag set; with the stop flag set and
\* items buffered it takes the head item instead; and on an empty queue
\* with the stop flag clear it blocks rather than going on.
C11_DequeueResult == []C11_Outcome /\ [][C11_Step]_vars
\* after the stop request and its notify_all a worker has passed the exit
\* test with every task still buffered and is about to take the head
C11_Witness ==
    /\ prog = "pool" /\ stopWorkers /\ mpc = "join"
    /\ popLog = <<>> /\ Len(taskQueue) = NumTasks
    /\ \E w \in Workers : wpc[w] = "branch"

\* =========================================================================
\* C13
\* =========================================================================
\* the lifecycle state as the programs hold it: open while the stop flag is
\* clear; draining once it is set and tasks are buffered; closed once it is
\* set and the queue is empty (the condition of the exit test, line 450)
C13_PoolState ==
    IF ~stopWorkers THEN "OPEN"
    ELSE IF ~Empty(taskQueue) THEN "DRAINING" ELSE "CLOSED"
C13_PcState ==
    IF ~finishedProducing THEN "OPEN"
    ELSE IF ~Empty(dataQueue) THEN "DRAINING" ELSE "CLOSED"
C13_Forward(a, b) ==
    \/ a = b
    \/ a = "OPEN"
    \/ a = "DRAINING" /\ b = "CLOSED"
C15_PushReady ==
    /\ (prog = "pool" /\ mpc = "push") => ENABLED MainPush
    /\ (prog = "pc" /\ ppc = "push") => ENABLED ProducerPush
C15_PushStep ==
    /\ (mpc = "push" /\ mpc' # "push")
          => (taskQueue' = Append(taskQueue, mi) /\ popLog' = popLog)
    /\ (ppc = "push" /\ ppc' # "push")
          => (dataQueue' = Append(dataQueue, pidx) /\ processed' = processed)
C15_Order ==
    /\ \A k \in 1 .. Len(popLog) : popLog[k] = k
    /\ \A w \in Workers :
          wpc[w] \in {"break", "done"} => (stopWorkers /\ Len(popLog) = NumTasks)
C17_WorkerState(pc) ==
    IF pc = "idle" THEN "NEW"
    ELSE IF pc = "break" THEN "STOPPING"
    ELSE IF pc = "done" THEN "STOPPED"
    ELSE "RUNNING"
C17_Step ==
    /\ \A w \in Workers :
          /\ (C17_WorkerState(wpc[w]) = "RUNNING" /\ C17_WorkerState(wpc'[w]) # "RUNNING")
                => /\ C17_WorkerState(wpc'[w]) = "STOPPING"
                   /\ wpc[w] = "test" /\ queueMutex = W(w)
                   /\ stopWorkers /\ Empty(taskQueue)
          /\ C17_WorkerState(wpc[w]) = "STOPPING"
                => C17_WorkerState(wpc'[w]) \in {"STOPPING", "STOPPED"}
          /\ C17_WorkerState(wpc[w]) = "STOPPED"
                => C17_WorkerState(wpc'[w]) = "STOPPED"
    /\ PoolTerminated => PoolTerminated'
\* C17: a worker leaves the loop only through the exit test that finds the
\* stop flag set and the queue empty, then returns, and never runs again; once
\* every worker has returned, none is running in any later state.
C17_WorkerLifecycle == [][C17_Step]_vars
\* one worker has returned while another is still executing a task
C17_Witness ==
    /\ prog = "pool"
    /\ \E v, w \in Workers : wpc[v] = "done" /\ wpc[w] = "work"

\* =========================================================================
\* C18
\* =========================================================================
\* worker threads that have been spawned and have not returned
C18_Live == Cardinality({w \in Workers : wpc[w] \notin {"idle", "done"}})
\* C18 (as stated): from the end of the spawn loop until the stop request has
\* been broadcast, every worker is alive.
C18_LiveUntilShutdownCompletes ==
    (prog = "pool" /\ mpc \notin {"spawn", "join", "end"})
        => C18_Live = NumWorkers
C18_Count ==
    prog = "pool" =>
        /\ (mpc # "spawn" /\ ~stopWorkers) => C18_Live = NumWorkers
        /\ (\E w \in Workers : wpc[w] \in {"break", "done"}) => stopWorkers
        /\ mpc = "join" => \A w \in Workers : w < mi => wpc[w] = "done"
        /\ mpc = "end" => C18_Live = 0
C18_Step == mpc # "spawn" => C18_Live' <= C18_Live
\* C18 (amended): from the end of the spawn loop until the stop is requested
\* every worker is alive; afterwards the number of live workers only
\* decreases; the join loop has passed only workers that have returned, and
\* when it has finished no worker is alive. No worker returns before the stop
\* is requested.
C18_LiveCount == []C18_Count /\ [][C18_Step]_vars
\* main is in the join loop and some, but not all, workers have returned
C18_Witness ==
    /\ prog = "pool" /\ mpc = "join"
    /\ 0 < C18_Live /\ C18_Live < NumWorkers

\* =========================================================================
\* C22
\* =========================================================================
\* increments thread t has completed on the counter
C22_Done(t) == ii[t] + (IF ipc[t] = "unlock" THEN 1 ELSE 0)
\* C22: with every increment inside the mutex, or atomic, the counter always
\* equals the number of increments completed so far, and the value main
\* prints after both joins is the number of threads times the increments per
\* thread.
C22_NoLostIncrement ==
    prog \in {"mutexCounter", "atomicCounter"} =>
        /\ sharedCounter = C22_Done(1) + C22_Done(2)
        /\ printed # <<>> => printed = <<Cardinality(IncThreads) * Increments>>
\* main has printed the counter of the mutex program
C22_Witness ==
    /\ prog = "mutexCounter"
    /\ printed = <<Cardinality(IncThreads) * Increments>>

C24_Deadlocked ==
    /\ prog = "lockGuard"
    /\ \A t \in LockThreads : lpc[t] = "second" /\ Held(t) = {order[t][1]}
C24_Stuck == C24_Deadlocked => ~ENABLED Next
\* C24: the two lock_guard threads reach a state in which each holds one
\* mutex and waits for the other; in that state no thread has a step, so it
\* lasts forever and neither thread finishes.
C24_DeadlockForever == []C24_Stuck /\ [][C24_Deadlocked => C24_Deadlocked']_vars
\* thread 1 holds mutexA, thread 2 holds mutexB, each is at its second lock
C24_Witness == C24_Deadlocked /\ mutexOwner["A"] = T(1) /\ mutexOwner["B"] = T(2)

\* =========================================================================
\* C25
\* =========================================================================
C25_Safe ==
    prog = "scopedLock" =>
        /\ \A t \in LockThreads :
              /\ lpc[t] = "first" => Held(t) = {}
              /\ lpc[t] = "body" => Held(t) = Mutexes
              /\ lpc[t] = "try" => ENABLED ScopedTry(t)
        /\ (\E t \in LockThreads : lpc[t] # "done") => ENABLED TwoMutex
\* C25: with scoped_lock no thread ever blocks while it holds a mutex: a
\* thread waiting for a mutex holds none, a thread holding one always has a
\* step, a thread in the body holds both, and as long as a thread has not
\* finished some thread can step, whatever order the threads name the mutexes in.
C25_NoDeadlock == []C25_Safe
\* the threads name the mutexes in opposite orders and each has locked one
C25_Witness ==
    /\ prog = "scopedLock" /\ order = OppositeOrder
    /\ \A t \in LockThreads : lpc[t] = "try" /\ Held(t) = {order[t][1]}

\* =========================================================================
\* C26
\* =========================================================================
C26_PastWait == rcpc \in {"process", "done"} => dataReady
C26_Step ==
    /\ (rcpc = "pred" /\ ~dataReady) => rcpc' \in {"pred", "block"}
    /\ (rcpc = "wait" /\ ConsumerT \in waiting) => rcpc' = "wait"
\* C26: the consumer gets past cv.wait only when dataReady is true, a
\* consumer in the wait set stays in wait, and in every fair run of the
\* dataReady program the consumer gets past the wait and finishes, whether
\* the producer notifies after the consumer began to wait or before the
\* consumer took the lock.
C26_WaitsForData ==
    /\ []C26_PastWait
    /\ [][C26_Step]_vars
    /\ (prog = "ready") ~> (rcpc = "done")
\* the consumer had blocked with dataReady false and the producer's
\* notify_one has taken it out of the wait set
C26_Witness ==
    /\ prog = "ready" /\ rcpc = "wait" /\ ConsumerT \notin waiting
    /\ spurious = 0 /\ dataReady /\ rppc = "done"

\* =========================================================================
\* C27
\* =========================================================================
\* worker v has arrived at the arrive_and_wait that ends phase r
C27_ArrivedAt(v, r) ==
    \/ round[v] > r
    \/ bpc[v] = "done"
    \/ round[v] = r /\ bpc[v] \in {"wait", "complete", "advance"}
C27_Phases ==
    prog = "barrier" =>
        /\ \A w, v \in BarrierWorkers :
              /\ round[w] = 2 => C27_ArrivedAt(v, 1)
              /\ bpc[w] = "done" => C27_ArrivedAt(v, 2)
        /\ completions =
              bphase + (IF \E w \in BarrierWorkers : bpc[w] = "advance" THEN 1 ELSE 0)
        /\ completions <= 2
C27_Step ==
    /\ \A w \in BarrierWorkers :
          (bpc[w] = "complete" /\ bpc'[w] # "complete")
              => /\ completions' = completions + 1
                 /\ arrived = Parties
                 /\ \A v \in BarrierWorkers \ {w} :
                       bpc[v] = "wait" /\ round[v] = round[w] /\ token[v] = bphase
    /\ completions' # completions
          => \E w \in BarrierWorkers : bpc[w] = "complete" /\ bpc'[w] = "advance"
\* C27: no worker is in or past its phase-2 work unless all three workers
\* have arrived at the first arrive_and_wait, and none is finished unless
\* all have arrived at the second; the completion function runs once for
\* each phase, in a step of the last arrival while all other workers are
\* still waiting in that phase; the second phase uses the same barrier.
C27_BarrierPhases == []C27_Phases /\ [][C27_Step]_vars
\* the barrier is in its second phase: one worker already waits at the
\* second arrive_and_wait while another has not yet returned from the first
C27_Witness ==
    /\ prog = "barrier" /\ bphase = 1 /\ completions = 1
    /\ \E w, v \in BarrierWorkers :
          /\ bpc[w] = "wait" /\ round[w] = 2
          /\ bpc[v] = "wait" /\ round[v] = 1

\* =========================================================================
\* C28
\* =========================================================================
C28_InOrder ==
    prog = "pc" =>
        /\ processed = FirstN(Len(processed), -1)
        /\ Len(processed) <= NumItems
        /\ cpc \in {"break", "done"}
              => /\ finishedProducing /\ Empty(dataQueue)
                 /\ Len(processed) = NumItems
\* C28: the values the consumer has processed are always 0, 1, 2, ... in
\* push order with none repeated or skipped; the consumer leaves its loop
\* only when finishedProducing is set and the queue is empty, having
\* processed every value; and in every fair run both threads finish.
C28_AllProcessed ==
    /\ []C28_InOrder
    /\ (prog = "pc") ~> (ppc = "done" /\ cpc = "done")
\* both threads have returned and every value was processed
C28_Witness ==
    /\ prog = "pc" /\ ppc = "done" /\ cpc = "done"
    /\ processed = FirstN(NumItems, -1)

\* =========================================================================
\* C29
\* =========================================================================
\* a thread at the statement that guards front() / pop() holds the mutex,
\* and a worker there finds the queue non-empty
C29_AtPop ==
    /\ \A w \in Workers :
          wpc[w] = "branch" => (queueMutex = W(w) /\ ~Empty(taskQueue))
    /\ cpc = "inner" => queueMutex = ConsumerT
C29_Step ==
    /\ (popLog' # popLog \/ task' # task \/ Len(taskQueue') < Len(taskQueue))
          => \E w \in Workers :
                /\ wpc[w] = "branch" /\ queueMutex = W(w) /\ ~Empty(taskQueue)
                /\ task' = [task EXCEPT ![w] = Head(taskQueue)]
                /\ taskQueue' = Tail(taskQueue)
    /\ (value' # value \/ Len(dataQueue') < Len(dataQueue))
          => /\ cpc = "inner" /\ queueMutex = ConsumerT /\ ~Empty(dataQueue)
             /\ value' = Head(dataQueue)
             /\ dataQueue' = Tail(dataQueue)
\* C29: every front() / pop(), in the worker and in the consumer, is a step
\* of the thread that holds queueMutex, taken on a non-empty queue; this
\* covers workers woken spuriously, woken by the stop, or woken together
\* for one task.
C29_PopNonEmpty == []C29_AtPop /\ [][C29_Step]_vars
\* one task is buffered; a worker is about to pop it while another worker
\* has been woken and a spurious wake-up has happened
C29_Witness ==
    /\ prog = "pool" /\ Len(taskQueue) = 1 /\ spurious > 0
    /\ \E w, v \in Workers :
          /\ wpc[w] = "branch"
          /\ wpc[v] = "wait" /\ W(v) \notin waiting

\* =========================================================================
\* C30
\* =========================================================================
\* positions at which a thread's unique_lock / lock_guard owns queueMutex
C30_WorkerOwns(w) ==
    wpc[w] \in {"pred", "block", "test", "break", "branch", "unlock", "unlockElse"}
C30_ConsumerOwns ==
    cpc \in {"pred", "block", "inner", "unlock", "fin", "break", "endIter"}
C30_MainOwns == mpc \in {"push", "unlock"}
C30_ProducerOwns == ppc \in {"push", "unlock", "setFin", "unlockFin"}
C30_Owners ==
    {W(w) : w \in {v \in Workers : prog = "pool" /\ C30_WorkerOwns(v)}}
        \cup (IF prog = "pc" /\ C30_ConsumerOwns THEN {ConsumerT} ELSE {})
        \cup (IF prog = "pool" /\ C30_MainOwns THEN {MainT} ELSE {})
        \cup (IF prog = "pc" /\ C30_ProducerOwns THEN {ProducerT} ELSE {})
C30_Owned ==
    prog \in {"pool", "pc"} =>
        /\ Cardinality(C30_Owners) <= 1
        /\ C30_Owners = (IF queueMutex = Free THEN {} ELSE {queueMutex})
C30_Step ==
    /\ \A w \in Workers :
          /\ (C30_WorkerOwns(w) /\ ~C30_WorkerOwns(w)')
                => (queueMutex = W(w) /\ queueMutex' = Free)
          /\ (~C30_WorkerOwns(w) /\ C30_WorkerOwns(w)')
                => (queueMutex = Free /\ queueMutex' = W(w))
    /\ (C30_ConsumerOwns /\ ~C30_ConsumerOwns')
          => (queueMutex = ConsumerT /\ queueMutex' = Free)
    /\ (~C30_ConsumerOwns /\ C30_ConsumerOwns')
          => (queueMutex = Free /\ queueMutex' = ConsumerT)
\* C30: the threads between a lock and the matching unlock are exactly the
\* owner of queueMutex, never more than one; an explicit unlock() is a step
\* of the owner, a lock() a step of a non-owner on a free mutex; each way
\* out of an iteration (task processed, empty wake-up, break) passes exactly
\* one release, after which the thread does not own the mutex.
C30_LockDiscipline == []C30_Owned /\ [][C30_Step]_vars
\* a worker has released the mutex by its explicit unlock() and is
\* processing; another is at the break and owns the mutex
C30_Witness ==
    /\ prog = "pool"
    /\ \E w, v \in Workers :
          /\ wpc[w] = "break" /\ queueMutex = W(w)
          /\ wpc[v] = "work"

====
